---- MODULE Spec2Model ----
(***************************************************************************)
(* Model of the practice-session store of practice_log.py: a JSON file     *)
(* holding an ordered list of PracticeSession records, and the operations  *)
(* add_session, list_sessions, get_session, update_session and             *)
(* delete_session, each of which loads the whole file, works in memory and *)
(* (when it mutates) writes the whole file back.                           *)
(*                                                                         *)
(* Strings are sequences of character codes (ASCII), so that str.strip,    *)
(* string comparison (the sort key of list_sessions) and                   *)
(* datetime.strptime(.., "%Y-%m-%d") are computed character by character.  *)
(***************************************************************************)
EXTENDS Integers, Sequences, FiniteSets, TLC

\* ------------------------------------------------------------------------
\* Bounds of the model
\* ------------------------------------------------------------------------

\* number of calls in one behaviour that starts from the empty store
MaxOps == 3

\* number of calls in one behaviour that starts from a file found on disk
MaxLegacyOps == 2

\* number of calls in a behaviour in which a save can fail
MaxCrashOps == 2

\* number of calls the two processes make together
MaxRaceOps == 3

\* ------------------------------------------------------------------------
\* Strings
\* ------------------------------------------------------------------------

\* character codes
SP == 32
DASH == 45
ZERO == 48

\* str.isspace for the characters used: space, \t \n \v \f \r
IsSpace(c) == c = SP \/ (c >= 9 /\ c <= 13)

IsDigit(c) == c >= ZERO /\ c <= ZERO + 9

DigitVal(c) == c - ZERO

RECURSIVE LStrip(_)
LStrip(s) == IF s # <<>> /\ IsSpace(Head(s)) THEN LStrip(Tail(s)) ELSE s

RECURSIVE RStrip(_)
RStrip(s) ==
  IF s # <<>> /\ IsSpace(s[Len(s)]) THEN RStrip(SubSeq(s, 1, Len(s) - 1)) ELSE s

\* str.strip(): surrounding whitespace removed, inner whitespace kept
Strip(s) == RStrip(LStrip(s))

\* Python's str < str: lexicographic by code point, a proper prefix is smaller
RECURSIVE StrLess(_, _)
StrLess(a, b) ==
  IF b = <<>> THEN FALSE
  ELSE IF a = <<>> THEN TRUE
  ELSE IF Head(a) # Head(b) THEN Head(a) < Head(b)
  ELSE StrLess(Tail(a), Tail(b))

\* ------------------------------------------------------------------------
\* Calendar dates and datetime.strptime(s, "%Y-%m-%d")
\* ------------------------------------------------------------------------

IsLeap(y) == (y % 4 = 0 /\ y % 100 # 0) \/ y % 400 = 0

DaysInMonth(y, m) ==
  IF m = 2 THEN (IF IsLeap(y) THEN 29 ELSE 28)
  ELSE IF m \in {4, 6, 9, 11} THEN 30 ELSE 31

\* character of s at position i, or 0 past the end
At(s, i) == IF i >= 1 /\ i <= Len(s) THEN s[i] ELSE 0

\* The directive %m is the regex 1[0-2]|0[1-9]|[1-9]: number of characters
\* it consumes at position i (0: no match).
MonthWidth(s, i) ==
  IF At(s, i) = ZERO + 1 /\ At(s, i + 1) \in {ZERO, ZERO + 1, ZERO + 2} THEN 2
  ELSE IF At(s, i) = ZERO /\ At(s, i + 1) \in (ZERO + 1)..(ZERO + 9) THEN 2
  ELSE IF At(s, i) \in (ZERO + 1)..(ZERO + 9) THEN 1
  ELSE 0

\* The directive %d is the regex 3[0-1]|[1-2]\d|0[1-9]|[1-9]| [1-9]
DayWidth(s, i) ==
  IF At(s, i) = ZERO + 3 /\ At(s, i + 1) \in {ZERO, ZERO + 1} THEN 2
  ELSE IF At(s, i) \in {ZERO + 1, ZERO + 2} /\ IsDigit(At(s, i + 1)) THEN 2
  ELSE IF At(s, i) = ZERO /\ At(s, i + 1) \in (ZERO + 1)..(ZERO + 9) THEN 2
  ELSE IF At(s, i) \in (ZERO + 1)..(ZERO + 9) THEN 1
  ELSE IF At(s, i) = SP /\ At(s, i + 1) \in (ZERO + 1)..(ZERO + 9) THEN 2
  ELSE 0

\* value of the w characters of s from position i, a leading space counting 0
NumAt(s, i, w) ==
  IF w = 1 THEN DigitVal(s[i])
  ELSE (IF s[i] = SP THEN 0 ELSE 10 * DigitVal(s[i])) + DigitVal(s[i + 1])

NoDate == [ok |-> FALSE, y |-> 0, m |-> 0, d |-> 0]

\* datetime.strptime(s, "%Y-%m-%d"): the format's regex must match a prefix
\* of s, nothing may remain after it, and the fields must name a day of the
\* calendar (year 1..9999).  ok = FALSE stands for the ValueError.
Strptime(s) ==
  IF ~(\A i \in 1..4 : IsDigit(At(s, i))) \/ At(s, 5) # DASH THEN NoDate
  ELSE
    LET mw == MonthWidth(s, 6) IN
    IF mw = 0 \/ At(s, 6 + mw) # DASH THEN NoDate
    ELSE
      LET dw == DayWidth(s, 7 + mw) IN
      IF dw = 0 \/ Len(s) # 6 + mw + dw THEN NoDate
      ELSE
        LET y == 1000 * DigitVal(s[1]) + 100 * DigitVal(s[2])
                   + 10 * DigitVal(s[3]) + DigitVal(s[4])
            m == NumAt(s, 6, mw)
            d == NumAt(s, 7 + mw, dw)
        IN IF y < 1 \/ d > DaysInMonth(y, m) THEN NoDate
           ELSE [ok |-> TRUE, y |-> y, m |-> m, d |-> d]

\* order of datetime.date values: a >= b
DateGE(a, b) ==
  \/ a.y > b.y
  \/ a.y = b.y /\ a.m > b.m
  \/ a.y = b.y /\ a.m = b.m /\ a.d >= b.d

\* two decimal digits, zero padded
TwoDigits(n) == <<ZERO + (n \div 10), ZERO + (n % 10)>>

\* date.isoformat(): YYYY-MM-DD, zero padded
Isoformat(dt) ==
  <<ZERO + (dt.y \div 1000), ZERO + ((dt.y \div 100) % 10),
    ZERO + ((dt.y \div 10) % 10), ZERO + (dt.y % 10)>>
  \o <<DASH>> \o TwoDigits(dt.m) \o <<DASH>> \o TwoDigits(dt.d)

\* date.toordinal(): 1 for 1 January of the year 1
RECURSIVE DaysBeforeMonth(_, _)
DaysBeforeMonth(y, m) ==
  IF m = 1 THEN 0 ELSE DaysBeforeMonth(y, m - 1) + DaysInMonth(y, m - 1)

ToOrdinal(dt) ==
  (dt.y - 1) * 365 + ((dt.y - 1) \div 4) - ((dt.y - 1) \div 100)
    + ((dt.y - 1) \div 400) + DaysBeforeMonth(dt.y, dt.m) + dt.d

\* date.weekday(): Monday is 0, Sunday is 6
Weekday(dt) == (ToOrdinal(dt) + 6) % 7

\* d - timedelta(days=k)
RECURSIVE MinusDays(_, _)
MinusDays(dt, k) ==
  IF k = 0 THEN dt
  ELSE IF dt.d > 1 THEN MinusDays([dt EXCEPT !.d = dt.d - 1], k - 1)
  ELSE IF dt.m > 1
       THEN MinusDays([dt EXCEPT !.m = dt.m - 1,
                                 !.d = DaysInMonth(dt.y, dt.m - 1)], k - 1)
  ELSE MinusDays([dt EXCEPT !.y = dt.y - 1, !.m = 12, !.d = 31], k - 1)

\* _start_of_week
StartOfWeek(dt) == MinusDays(dt, Weekday(dt))

\* str.lower() on ASCII letters
LowerChar(c) == IF c >= 65 /\ c <= 90 THEN c + 32 ELSE c

Lower(s) == [i \in 1..Len(s) |-> LowerChar(s[i])]

\* ------------------------------------------------------------------------
\* Input values of the operations
\* ------------------------------------------------------------------------

\* "2024-9-1": accepted by strptime, not zero padded
D_2024_9_1 == <<50, 48, 50, 52, 45, 57, 45, 49>>

\* "2024-10-01"
D_2024_10_01 == <<50, 48, 50, 52, 45, 49, 48, 45, 48, 49>>

\* "2024-02-30": the right shape, not a day of the calendar
D_2024_02_30 == <<50, 48, 50, 52, 45, 48, 50, 45, 51, 48>>

\* "2024-10-03": the day after Today
D_2024_10_03 == <<50, 48, 50, 52, 45, 49, 48, 45, 48, 51>>

\* the value of date.today(): Wednesday 2 October 2024
Today == [ok |-> TRUE, y |-> 2024, m |-> 10, d |-> 2]

\* Arguments of add_session:
\*   on "2024-9-1"   " A " "p " 1 ""
\*   on "2024-10-01" "b"   "q"  2 " n,"" "   (notes with a comma and a quote)
\*   on "2024-02-30" "a"   "q"  1 ""         (invalid date)
\*   on "2024-9-1"   " A " "p " 0 " n,"" "   (invalid duration, valid date)
\*   on "2024-10-03" " "   ""   1 ""         (no instrument, no piece)
Profiles ==
  { [date |-> D_2024_9_1, instrument |-> <<32, 65, 32>>, piece |-> <<112, 32>>,
     duration_minutes |-> 1, notes |-> <<>>],
    [date |-> D_2024_10_01, instrument |-> <<98>>, piece |-> <<113>>,
     duration_minutes |-> 2, notes |-> <<32, 110, 44, 34, 32>>],
    [date |-> D_2024_02_30, instrument |-> <<97>>, piece |-> <<113>>,
     duration_minutes |-> 1, notes |-> <<>>],
    [date |-> D_2024_9_1, instrument |-> <<32, 65, 32>>, piece |-> <<112, 32>>,
     duration_minutes |-> 0, notes |-> <<32, 110, 44, 34, 32>>],
    [date |-> D_2024_10_03, instrument |-> <<32>>, piece |-> <<>>,
     duration_minutes |-> 1, notes |-> <<>>] }

\* Values of the keyword arguments of update_session, when supplied:
\* a valid and an invalid date, " A ", "q", a valid and an invalid duration,
\* " n,"" "
\* the arguments of the calls of add_session that leave the date out
UndatedProfiles == {p \in Profiles : p.date = D_2024_9_1}

UpdateDates == {D_2024_10_01, D_2024_02_30}
UpdateInstruments == {<<32, 65, 32>>}
UpdatePieces == {<<113>>}
UpdateDurations == {2, 0}
UpdateNotes == {<<32, 110, 44, 34, 32>>}

\* the keyword arguments of update_session
FieldNames == {"date", "instrument", "piece", "duration_minutes", "notes"}

\* values of the instrument argument of list_sessions: "", "a"
ListInstruments == {<<>>, <<97>>}

\* values of the prefix argument of _resolve_id_prefix: "", "0", "01",
\* " 01 ", "02"
Prefixes ==
  {<<>>, <<48>>, <<48, 49>>, <<32, 48, 49, 32>>, <<48, 50>>}

\* values of the top_n argument of weekly_summary: none, one, the default
TopNs == {0, 1, 5}

\* values of the since argument of list_sessions
ListSince == {<<>>, D_2024_9_1, D_2024_10_01, D_2024_02_30}

\* ------------------------------------------------------------------------
\* Identifiers
\* ------------------------------------------------------------------------

HexDigit(k) == IF k < 10 THEN ZERO + k ELSE 87 + k

\* uuid.uuid4().hex, shortened to two hexadecimal characters; the n-th call
\* returns a value no earlier call returned
UuidHex(n) == <<HexDigit((n \div 16) % 16), HexDigit(n % 16)>>

\* an id found in a file written by hand or by another program: "f0"
ForeignId == <<102, 48>>

\* an id no record ever had: "f1"
UnknownId == <<102, 49>>

\* ------------------------------------------------------------------------
\* The storage file
\* ------------------------------------------------------------------------

\* the dataclass; a record of the file whose "id" is missing or empty has
\* id = <<>>
PracticeSession(id, date, instrument, piece, duration_minutes, notes) ==
  [id |-> id, date |-> date, instrument |-> instrument, piece |-> piece,
   duration_minutes |-> duration_minutes, notes |-> notes]

\* DATA_FILE does not exist
NoFile == [exists |-> FALSE, data |-> <<>>]

\* _save_sessions: the whole list replaces the contents of the file
SaveSessions(sessions) == [exists |-> TRUE, data |-> sessions]

\* the loop of _load_sessions over the items of the file: an item without an
\* id gets the next uuid.  Result: the sessions and the next unused uuid.
RECURSIVE Backfill(_, _)
Backfill(raw, n) ==
  IF raw = <<>> THEN [sessions |-> <<>>, next |-> n]
  ELSE
    LET item == Head(raw)
        missing == item.id = <<>>
        first == IF missing THEN [item EXCEPT !.id = UuidHex(n)] ELSE item
        rest == Backfill(Tail(raw), IF missing THEN n + 1 ELSE n)
    IN [sessions |-> <<first>> \o rest.sessions, next |-> rest.next]

\* _load_sessions that does not write the generated ids back
LoadSessions_NoSave(f, n) ==
  IF ~f.exists THEN [sessions |-> <<>>, file |-> f, next |-> n]
  ELSE
    LET b == Backfill(f.data, n)
    IN [sessions |-> b.sessions, file |-> f, next |-> b.next]

\* _load_sessions: the sessions of the file f, the file afterwards (rewritten
\* when an id was generated) and the next unused uuid
LoadSessions(f, n) ==
  IF ~f.exists THEN [sessions |-> <<>>, file |-> f, next |-> n]
  ELSE
    LET b == Backfill(f.data, n)
        changed == b.next # n
    IN [sessions |-> b.sessions,
        file |-> IF changed THEN SaveSessions(b.sessions) ELSE f,
        next |-> b.next]

\* ------------------------------------------------------------------------
\* The operations, as functions of the file f, the next unused uuid n and
\* the arguments a.  Each result has ok (FALSE: the call raised), the file
\* and the next unused uuid afterwards, and ret, the sessions returned.
\* ------------------------------------------------------------------------

\* the arguments of a call: supplied holds the names of the optional
\* arguments that are not None
NoArgs ==
  [id |-> <<>>, supplied |-> {}, date |-> <<>>, instrument |-> <<>>,
   piece |-> <<>>, duration_minutes |-> 0, notes |-> <<>>, since |-> <<>>,
   top_n |-> 0, prefix |-> <<>>]

Raised(f, n) == [ok |-> FALSE, file |-> f, next |-> n, ret |-> <<>>]

\* add_session without piece.strip()
AddSession_NoStrip(f, n, a) ==
  LET session_date ==
        IF "date" \in a.supplied THEN a.date ELSE Isoformat(Today)
  IN IF ~Strptime(session_date).ok THEN Raised(f, n)
     ELSE IF a.duration_minutes <= 0 THEN Raised(f, n)
     ELSE
       LET session == PracticeSession(UuidHex(n), session_date,
                        Strip(a.instrument), a.piece,
                        a.duration_minutes, Strip(a.notes))
           ld == LoadSessions(f, n + 1)
       IN [ok |-> TRUE, file |-> SaveSessions(Append(ld.sessions, session)),
           next |-> ld.next, ret |-> <<session>>]

\* add_session refusing "duration_minutes < 0" only
AddSession_ZeroAllowed(f, n, a) ==
  LET session_date ==
        IF "date" \in a.supplied THEN a.date ELSE Isoformat(Today)
  IN IF ~Strptime(session_date).ok THEN Raised(f, n)
     ELSE IF a.duration_minutes < 0 THEN Raised(f, n)
     ELSE
       LET session == PracticeSession(UuidHex(n), session_date,
                        Strip(a.instrument), Strip(a.piece),
                        a.duration_minutes, Strip(a.notes))
           ld == LoadSessions(f, n + 1)
       IN [ok |-> TRUE, file |-> SaveSessions(Append(ld.sessions, session)),
           next |-> ld.next, ret |-> <<session>>]

\* add_session putting the new session in front of the loaded ones
AddSession_Prepends(f, n, a) ==
  LET session_date ==
        IF "date" \in a.supplied THEN a.date ELSE Isoformat(Today)
  IN IF ~Strptime(session_date).ok THEN Raised(f, n)
     ELSE IF a.duration_minutes <= 0 THEN Raised(f, n)
     ELSE
       LET session == PracticeSession(UuidHex(n), session_date,
                        Strip(a.instrument), Strip(a.piece),
                        a.duration_minutes, Strip(a.notes))
           ld == LoadSessions(f, n + 1)
       IN [ok |-> TRUE, file |-> SaveSessions(<<session>> \o ld.sessions),
           next |-> ld.next, ret |-> <<session>>]

\* add_session, lines 84-115
AddSession(f, n, a) ==
  LET session_date ==
        IF "date" \in a.supplied THEN a.date ELSE Isoformat(Today)
  IN IF ~Strptime(session_date).ok THEN Raised(f, n)
     ELSE IF a.duration_minutes <= 0 THEN Raised(f, n)
     ELSE
       LET session == PracticeSession(UuidHex(n), session_date,
                        Strip(a.instrument), Strip(a.piece),
                        a.duration_minutes, Strip(a.notes))
           ld == LoadSessions(f, n + 1)
       IN [ok |-> TRUE, file |-> SaveSessions(Append(ld.sessions, session)),
           next |-> ld.next, ret |-> <<session>>]

\* list.sort(key=lambda s: s.date, reverse=True): stable, descending by the
\* date string.  x goes behind every element whose key is not smaller.
RECURSIVE InsertByDateDesc(_, _)
InsertByDateDesc(l, x) ==
  IF l = <<>> THEN <<x>>
  ELSE IF StrLess(Head(l).date, x.date) THEN <<x>> \o l
  ELSE <<Head(l)>> \o InsertByDateDesc(Tail(l), x)

RECURSIVE SortByDateDesc(_)
SortByDateDesc(l) ==
  IF l = <<>> THEN <<>>
  ELSE InsertByDateDesc(SortByDateDesc(SubSeq(l, 1, Len(l) - 1)), l[Len(l)])

\* "if instrument:" and "if since:": None and "" both skip the filter
Truthy(a, name, value) == name \in a.supplied /\ value # <<>>

\* list_sessions comparing the date strings with since
ListSessions_StringSince(f, n, a) ==
  LET ld == LoadSessions(f, n)
      SameInstrument(s) == Lower(s.instrument) = Lower(a.instrument)
      byInstrument ==
        IF Truthy(a, "instrument", a.instrument)
        THEN SelectSeq(ld.sessions, SameInstrument) ELSE ld.sessions
      since_dt == Strptime(a.since)
      Since(s) == ~StrLess(s.date, a.since)
  IN IF ~Truthy(a, "since", a.since)
     THEN [ok |-> TRUE, file |-> ld.file, next |-> ld.next,
           ret |-> SortByDateDesc(byInstrument)]
     ELSE IF ~since_dt.ok THEN Raised(ld.file, ld.next)
     ELSE IF \E i \in 1..Len(byInstrument) : ~Strptime(byInstrument[i].date).ok
          THEN Raised(ld.file, ld.next)
     ELSE [ok |-> TRUE, file |-> ld.file, next |-> ld.next,
           ret |-> SortByDateDesc(SelectSeq(byInstrument, Since))]

\* list_sessions comparing the instruments as they are written
ListSessions_CaseSensitive(f, n, a) ==
  LET ld == LoadSessions(f, n)
      SameInstrument(s) == s.instrument = a.instrument
      byInstrument ==
        IF Truthy(a, "instrument", a.instrument)
        THEN SelectSeq(ld.sessions, SameInstrument) ELSE ld.sessions
      since_dt == Strptime(a.since)
      Since(s) == DateGE(Strptime(s.date), since_dt)
  IN IF ~Truthy(a, "since", a.since)
     THEN [ok |-> TRUE, file |-> ld.file, next |-> ld.next,
           ret |-> SortByDateDesc(byInstrument)]
     ELSE IF ~since_dt.ok THEN Raised(ld.file, ld.next)
     ELSE IF \E i \in 1..Len(byInstrument) : ~Strptime(byInstrument[i].date).ok
          THEN Raised(ld.file, ld.next)
     ELSE [ok |-> TRUE, file |-> ld.file, next |-> ld.next,
           ret |-> SortByDateDesc(SelectSeq(byInstrument, Since))]

\* list_sessions writing the sorted, filtered list back to the file
ListSessions_SavesSorted(f, n, a) ==
  LET ld == LoadSessions(f, n)
      SameInstrument(s) == Lower(s.instrument) = Lower(a.instrument)
      byInstrument ==
        IF Truthy(a, "instrument", a.instrument)
        THEN SelectSeq(ld.sessions, SameInstrument) ELSE ld.sessions
      since_dt == Strptime(a.since)
      Since(s) == DateGE(Strptime(s.date), since_dt)
  IN IF ~Truthy(a, "since", a.since)
     THEN [ok |-> TRUE, file |-> SaveSessions(SortByDateDesc(byInstrument)),
           next |-> ld.next, ret |-> SortByDateDesc(byInstrument)]
     ELSE IF ~since_dt.ok THEN Raised(ld.file, ld.next)
     ELSE IF \E i \in 1..Len(byInstrument) : ~Strptime(byInstrument[i].date).ok
          THEN Raised(ld.file, ld.next)
     ELSE [ok |-> TRUE,
           file |-> SaveSessions(SortByDateDesc(SelectSeq(byInstrument, Since))),
           next |-> ld.next,
           ret |-> SortByDateDesc(SelectSeq(byInstrument, Since))]

\* list_sessions, lines 118-138
ListSessions(f, n, a) ==
  LET ld == LoadSessions(f, n)
      SameInstrument(s) == Lower(s.instrument) = Lower(a.instrument)
      byInstrument ==
        IF Truthy(a, "instrument", a.instrument)
        THEN SelectSeq(ld.sessions, SameInstrument) ELSE ld.sessions
      since_dt == Strptime(a.since)
      Since(s) == DateGE(Strptime(s.date), since_dt)
  IN IF ~Truthy(a, "since", a.since)
     THEN [ok |-> TRUE, file |-> ld.file, next |-> ld.next,
           ret |-> SortByDateDesc(byInstrument)]
     ELSE IF ~since_dt.ok THEN Raised(ld.file, ld.next)
     ELSE IF \E i \in 1..Len(byInstrument) : ~Strptime(byInstrument[i].date).ok
          THEN Raised(ld.file, ld.next)
     ELSE [ok |-> TRUE, file |-> ld.file, next |-> ld.next,
           ret |-> SortByDateDesc(SelectSeq(byInstrument, Since))]

\* str.startswith
StartsWith(s, prefix) ==
  /\ Len(prefix) <= Len(s)
  /\ SubSeq(s, 1, Len(prefix)) = prefix

\* _resolve_id_prefix without the check for several matches
ResolveIdPrefix_FirstMatch(f, n, a) ==
  LET prefix == Strip(a.prefix)
      l == LoadSessions(f, n)
      IsMatch(s) == StartsWith(s.id, prefix)
      matches == SelectSeq(l.sessions, IsMatch)
  IN IF Len(matches) = 0 THEN Raised(l.file, l.next)
     ELSE [ok |-> TRUE, file |-> l.file, next |-> l.next,
           ret |-> matches[1].id]

\* _resolve_id_prefix, lines 221-229
ResolveIdPrefix(f, n, a) ==
  LET prefix == Strip(a.prefix)
      l == LoadSessions(f, n)
      IsMatch(s) == StartsWith(s.id, prefix)
      matches == SelectSeq(l.sessions, IsMatch)
  IN IF Len(matches) = 0 THEN Raised(l.file, l.next)
     ELSE IF Len(matches) > 1 THEN Raised(l.file, l.next)
     ELSE [ok |-> TRUE, file |-> l.file, next |-> l.next,
           ret |-> matches[1].id]

\* sum(s.duration_minutes for s in sessions)
RECURSIVE SumMinutes(_)
SumMinutes(sessions) ==
  IF sessions = <<>> THEN 0
  ELSE Head(sessions).duration_minutes + SumMinutes(Tail(sessions))

\* minutes[key] += v on a defaultdict(int) kept as the list of its items in
\* insertion order
AddMinutes(items, key, v) ==
  IF \E i \in 1..Len(items) : items[i][1] = key
  THEN [i \in 1..Len(items) |->
          IF items[i][1] = key THEN <<key, items[i][2] + v>> ELSE items[i]]
  ELSE Append(items, <<key, v>>)

\* the loop of weekly_summary over the sessions: minutes by instrument
RECURSIVE MinutesByInstrument(_)
MinutesByInstrument(sessions) ==
  IF sessions = <<>> THEN <<>>
  ELSE LET s == sessions[Len(sessions)]
       IN AddMinutes(MinutesByInstrument(SubSeq(sessions, 1, Len(sessions) - 1)),
                     s.instrument, s.duration_minutes)

\* the loop of weekly_summary over the sessions: minutes by piece
RECURSIVE MinutesByPiece(_)
MinutesByPiece(sessions) ==
  IF sessions = <<>> THEN <<>>
  ELSE LET s == sessions[Len(sessions)]
       IN AddMinutes(MinutesByPiece(SubSeq(sessions, 1, Len(sessions) - 1)),
                     s.piece, s.duration_minutes)

\* sorted(items, key=lambda x: x[1], reverse=True): stable, descending by the
\* minutes
RECURSIVE InsertByMinutesDesc(_, _)
InsertByMinutesDesc(l, x) ==
  IF l = <<>> THEN <<x>>
  ELSE IF Head(l)[2] < x[2] THEN <<x>> \o l
  ELSE <<Head(l)>> \o InsertByMinutesDesc(Tail(l), x)

\* the items left in the order of insertion
SortByMinutesDesc_Unsorted(l) == l

RECURSIVE SortByMinutesDesc(_)
SortByMinutesDesc(l) ==
  IF l = <<>> THEN <<>>
  ELSE InsertByMinutesDesc(SortByMinutesDesc(SubSeq(l, 1, Len(l) - 1)),
                           l[Len(l)])

\* l[:k]
UpTo(l, k) ==
  IF k >= 0 THEN SubSeq(l, 1, IF k < Len(l) THEN k ELSE Len(l))
  ELSE SubSeq(l, 1, IF Len(l) + k > 0 THEN Len(l) + k ELSE 0)

\* weekly_summary, lines 31-55
WeeklySummary(f, n, a) ==
  LET start == StartOfWeek(Today)
      listed == ListSessions(f, n, [NoArgs EXCEPT !.supplied = {"since"},
                                                  !.since = Isoformat(start)])
      sessions == listed.ret
  IN IF ~listed.ok THEN Raised(listed.file, listed.next)
     ELSE [ok |-> TRUE, file |-> listed.file, next |-> listed.next,
           ret |-> [start_date |-> Isoformat(start),
                    end_date |-> Isoformat(Today),
                    total_minutes |-> SumMinutes(sessions),
                    minutes_by_instrument |->
                      SortByMinutesDesc(MinutesByInstrument(sessions)),
                    top_pieces |->
                      UpTo(SortByMinutesDesc(MinutesByPiece(sessions)), a.top_n),
                    session_count |-> Len(sessions)]]

\* total_minutes that filters by instrument only
TotalMinutes_IgnoresSince(f, n, a) ==
  LET listed == ListSessions(f, n, [a EXCEPT !.supplied = a.supplied \ {"since"}])
  IN IF ~listed.ok THEN Raised(listed.file, listed.next)
     ELSE [ok |-> TRUE, file |-> listed.file, next |-> listed.next,
           ret |-> SumMinutes(listed.ret)]

\* total_minutes, lines 141-145
TotalMinutes(f, n, a) ==
  LET listed == ListSessions(f, n, a)
  IN IF ~listed.ok THEN Raised(listed.file, listed.next)
     ELSE [ok |-> TRUE, file |-> listed.file, next |-> listed.next,
           ret |-> SumMinutes(listed.ret)]

\* the fieldnames of the csv.DictWriter: id, date, instrument, piece,
\* duration_minutes, notes
CsvFieldNames ==
  <<<<105, 100>>,
    <<100, 97, 116, 101>>,
    <<105, 110, 115, 116, 114, 117, 109, 101, 110, 116>>,
    <<112, 105, 101, 99, 101>>,
    <<100, 117, 114, 97, 116, 105, 111, 110, 95, 109, 105, 110, 117, 116, 101, 115>>,
    <<110, 111, 116, 101, 115>>>>

COMMA == 44
QUOTE == 34
CR == 13
LF == 10

\* str() of a natural number
RECURSIVE Str(_)
Str(k) ==
  IF k < 10 THEN <<ZERO + k>> ELSE Str(k \div 10) \o <<ZERO + (k % 10)>>

\* a field with every quote doubled
RECURSIVE DoubleQuotes(_)
DoubleQuotes(s) ==
  IF s = <<>> THEN <<>>
  ELSE (IF Head(s) = QUOTE THEN <<QUOTE, QUOTE>> ELSE <<Head(s)>>)
         \o DoubleQuotes(Tail(s))

\* a field as csv.writer would write it with no quoting at all
CsvField_Unquoted(s) == s

\* a field as csv.writer writes it (QUOTE_MINIMAL): quoted when it holds the
\* delimiter, the quote character or a character of the line terminator
CsvField(s) ==
  IF \E i \in 1..Len(s) : s[i] \in {COMMA, QUOTE, CR, LF}
  THEN <<QUOTE>> \o DoubleQuotes(s) \o <<QUOTE>>
  ELSE s

\* the fields of a row separated by commas
RECURSIVE JoinFields(_)
JoinFields(fields) ==
  IF Len(fields) = 1 THEN CsvField(fields[1])
  ELSE CsvField(Head(fields)) \o <<COMMA>> \o JoinFields(Tail(fields))

\* writer.writerow: the row and the line terminator "\r\n"
CsvRow(fields) == JoinFields(fields) \o <<CR, LF>>

\* asdict(s) in the order of the fieldnames, each value as its str()
CsvValues(s) ==
  <<s.id, s.date, s.instrument, s.piece, Str(s.duration_minutes), s.notes>>

\* the loop of export_csv over the sessions
RECURSIVE CsvRows(_)
CsvRows(sessions) ==
  IF sessions = <<>> THEN <<>>
  ELSE CsvRow(CsvValues(Head(sessions))) \o CsvRows(Tail(sessions))

\* export_csv, lines 154-168; ret is the text written to the CSV file
ExportCsv(f, n, a) ==
  LET listed == ListSessions(f, n, NoArgs)
  IN [ok |-> TRUE, file |-> listed.file, next |-> listed.next,
      ret |-> CsvRow(CsvFieldNames) \o CsvRows(listed.ret)]

\* positions of the sessions with the id
Matching(sessions, id) == {i \in 1..Len(sessions) : sessions[i].id = id}

\* the first of a non-empty set of positions
First(S) == CHOOSE i \in S : \A j \in S : i <= j

GetSession(f, n, a) ==
  LET ld == LoadSessions(f, n)
      found == Matching(ld.sessions, a.id)
  IN IF found = {} THEN Raised(ld.file, ld.next)
     ELSE [ok |-> TRUE, file |-> ld.file, next |-> ld.next,
           ret |-> <<ld.sessions[First(found)]>>]

\* update_session storing "" for the notes when none are supplied
UpdateSession_NotesReset(f, n, a) ==
  LET ld == LoadSessions(f, n)
      found == Matching(ld.sessions, a.id)
  IN IF found = {} THEN Raised(ld.file, ld.next)
     ELSE
       LET i == First(found)
           s == ld.sessions[i]
           Given(name) == name \in a.supplied
           updated ==
             PracticeSession(s.id,
               IF Given("date") THEN a.date ELSE s.date,
               IF Given("instrument") THEN Strip(a.instrument) ELSE s.instrument,
               IF Given("piece") THEN Strip(a.piece) ELSE s.piece,
               IF Given("duration_minutes") THEN a.duration_minutes
                                            ELSE s.duration_minutes,
               IF Given("notes") THEN Strip(a.notes) ELSE <<>>)
       IN IF Given("date") /\ ~Strptime(a.date).ok THEN Raised(ld.file, ld.next)
          ELSE IF Given("duration_minutes") /\ a.duration_minutes <= 0
               THEN Raised(ld.file, ld.next)
          ELSE [ok |-> TRUE,
                file |-> SaveSessions([ld.sessions EXCEPT ![i] = updated]),
                next |-> ld.next, ret |-> <<updated>>]

\* update_session saving the date it has applied before it raises on the
\* duration
UpdateSession_SavesBeforeRaise(f, n, a) ==
  LET ld == LoadSessions(f, n)
      found == Matching(ld.sessions, a.id)
  IN IF found = {} THEN Raised(ld.file, ld.next)
     ELSE
       LET i == First(found)
           s == ld.sessions[i]
           Given(name) == name \in a.supplied
           updated ==
             PracticeSession(s.id,
               IF Given("date") THEN a.date ELSE s.date,
               IF Given("instrument") THEN Strip(a.instrument) ELSE s.instrument,
               IF Given("piece") THEN Strip(a.piece) ELSE s.piece,
               IF Given("duration_minutes") THEN a.duration_minutes
                                            ELSE s.duration_minutes,
               IF Given("notes") THEN Strip(a.notes) ELSE s.notes)
       IN IF Given("date") /\ ~Strptime(a.date).ok THEN Raised(ld.file, ld.next)
          ELSE IF Given("duration_minutes") /\ a.duration_minutes <= 0
               THEN Raised(SaveSessions([ld.sessions EXCEPT ![i].date = updated.date]),
                           ld.next)
          ELSE [ok |-> TRUE,
                file |-> SaveSessions([ld.sessions EXCEPT ![i] = updated]),
                next |-> ld.next, ret |-> <<updated>>]

\* update_session appending the updated session instead of replacing it
UpdateSession_Appends(f, n, a) ==
  LET ld == LoadSessions(f, n)
      found == Matching(ld.sessions, a.id)
  IN IF found = {} THEN Raised(ld.file, ld.next)
     ELSE
       LET i == First(found)
           s == ld.sessions[i]
           Given(name) == name \in a.supplied
           updated ==
             PracticeSession(s.id,
               IF Given("date") THEN a.date ELSE s.date,
               IF Given("instrument") THEN Strip(a.instrument) ELSE s.instrument,
               IF Given("piece") THEN Strip(a.piece) ELSE s.piece,
               IF Given("duration_minutes") THEN a.duration_minutes
                                            ELSE s.duration_minutes,
               IF Given("notes") THEN Strip(a.notes) ELSE s.notes)
       IN IF Given("date") /\ ~Strptime(a.date).ok THEN Raised(ld.file, ld.next)
          ELSE IF Given("duration_minutes") /\ a.duration_minutes <= 0
               THEN Raised(ld.file, ld.next)
          ELSE [ok |-> TRUE,
                file |-> SaveSessions(Append(ld.sessions, updated)),
                next |-> ld.next, ret |-> <<updated>>]

\* update_session without the strptime call on the date
UpdateSession_DateUnchecked(f, n, a) ==
  LET ld == LoadSessions(f, n)
      found == Matching(ld.sessions, a.id)
  IN IF found = {} THEN Raised(ld.file, ld.next)
     ELSE
       LET i == First(found)
           s == ld.sessions[i]
           Given(name) == name \in a.supplied
           updated ==
             PracticeSession(s.id,
               IF Given("date") THEN a.date ELSE s.date,
               IF Given("instrument") THEN Strip(a.instrument) ELSE s.instrument,
               IF Given("piece") THEN Strip(a.piece) ELSE s.piece,
               IF Given("duration_minutes") THEN a.duration_minutes
                                            ELSE s.duration_minutes,
               IF Given("notes") THEN Strip(a.notes) ELSE s.notes)
       IN IF Given("duration_minutes") /\ a.duration_minutes <= 0
          THEN Raised(ld.file, ld.next)
          ELSE [ok |-> TRUE,
                file |-> SaveSessions([ld.sessions EXCEPT ![i] = updated]),
                next |-> ld.next, ret |-> <<updated>>]

\* update_session, lines 177-212
UpdateSession(f, n, a) ==
  LET ld == LoadSessions(f, n)
      found == Matching(ld.sessions, a.id)
  IN IF found = {} THEN Raised(ld.file, ld.next)
     ELSE
       LET i == First(found)
           s == ld.sessions[i]
           Given(name) == name \in a.supplied
           updated ==
             PracticeSession(s.id,
               IF Given("date") THEN a.date ELSE s.date,
               IF Given("instrument") THEN Strip(a.instrument) ELSE s.instrument,
               IF Given("piece") THEN Strip(a.piece) ELSE s.piece,
               IF Given("duration_minutes") THEN a.duration_minutes
                                            ELSE s.duration_minutes,
               IF Given("notes") THEN Strip(a.notes) ELSE s.notes)
       IN IF Given("date") /\ ~Strptime(a.date).ok THEN Raised(ld.file, ld.next)
          ELSE IF Given("duration_minutes") /\ a.duration_minutes <= 0
               THEN Raised(ld.file, ld.next)
          ELSE [ok |-> TRUE,
                file |-> SaveSessions([ld.sessions EXCEPT ![i] = updated]),
                next |-> ld.next, ret |-> <<updated>>]

\* delete_session dropping the first record once the id is found
DeleteSession_DropsFirst(f, n, a) ==
  LET ld == LoadSessions(f, n)
  IN IF Matching(ld.sessions, a.id) = {} THEN Raised(ld.file, ld.next)
     ELSE [ok |-> TRUE, file |-> SaveSessions(Tail(ld.sessions)),
           next |-> ld.next, ret |-> <<>>]

\* delete_session saving the filtered list before it compares the lengths
DeleteSession_SavesFirst(f, n, a) ==
  LET ld == LoadSessions(f, n)
      Other(s) == s.id # a.id
      new_sessions == SelectSeq(ld.sessions, Other)
  IN IF Len(new_sessions) = Len(ld.sessions)
     THEN Raised(SaveSessions(new_sessions), ld.next)
     ELSE [ok |-> TRUE, file |-> SaveSessions(new_sessions),
           next |-> ld.next, ret |-> <<>>]

\* delete_session, lines 214-219
DeleteSession(f, n, a) ==
  LET ld == LoadSessions(f, n)
      Other(s) == s.id # a.id
      new_sessions == SelectSeq(ld.sessions, Other)
  IN IF Len(new_sessions) = Len(ld.sessions) THEN Raised(ld.file, ld.next)
     ELSE [ok |-> TRUE, file |-> SaveSessions(new_sessions),
           next |-> ld.next, ret |-> <<>>]

\* ------------------------------------------------------------------------
\* State
\* ------------------------------------------------------------------------

VARIABLES
  file,      \* DATA_FILE: whether it exists, and the list of records in it
  nextUuid,  \* number of the next uuid4() call
  last,      \* the last call: operation, arguments, outcome, value returned
  before,    \* the file as it was when the last call started
  budget,    \* number of calls still to be made
  write,     \* the call whose saves are under way, step by step
  procs      \* the calls of two processes working on the same file

vars == <<file, nextUuid, last, before, budget, write, procs>>

NoCall == [op |-> "none", args |-> NoArgs, ok |-> TRUE, ret |-> <<>>]

\* no save is under way
NoWrite ==
  [pc |-> "idle", op |-> "none", args |-> NoArgs, r |-> Raised(NoFile, 0),
   pending |-> <<>>, prior |-> NoFile]

\* the processes sharing the file: the CLI and the GUI
Procs == {1, 2}

NoOverwrite == [op |-> "none", args |-> NoArgs, r |-> Raised(NoFile, 0)]

\* a process between two calls
IdleProc ==
  [pc |-> "idle", op |-> "none", args |-> NoArgs, n |-> 0,
   snapshot |-> NoFile, r |-> Raised(NoFile, 0), latest |-> FALSE,
   overwrites |-> NoOverwrite]

NoProcs == [p \in Procs |-> IdleProc]

\* files left by an earlier version of the program, whose records had no id,
\* or edited by hand
LegacyRecord(id, p) ==
  PracticeSession(id, p.date, Strip(p.instrument), Strip(p.piece),
                  p.duration_minutes, Strip(p.notes))

ValidProfiles ==
  {p \in Profiles : Strptime(p.date).ok /\ p.duration_minutes > 0}

LegacyFiles ==
  {NoFile, SaveSessions(<<>>)}
    \cup {SaveSessions(<<LegacyRecord(<<>>, p)>>) : p \in ValidProfiles}
    \cup {SaveSessions(<<LegacyRecord(i, p), LegacyRecord(<<>>, q)>>) :
            i \in {ForeignId, <<>>},
            p \in {x \in ValidProfiles : x.duration_minutes = 1},
            q \in {x \in ValidProfiles : x.duration_minutes = 2}}

\* the store is empty: no file yet
Init ==
  /\ file = NoFile
  /\ nextUuid = 1
  /\ last = NoCall
  /\ before = NoFile
  /\ budget = MaxOps
  /\ write = NoWrite
  /\ procs = NoProcs

\* the program starts on a file it finds on disk
InitLegacy ==
  /\ file \in LegacyFiles
  /\ nextUuid = 1
  /\ last = NoCall
  /\ before = file
  /\ budget = MaxLegacyOps
  /\ write = NoWrite
  /\ procs = NoProcs

\* the ids a caller can name: every id generated so far, the ids in the
\* file, and the unknown one
IdArgs ==
  ({UuidHex(k) : k \in 1..(nextUuid - 1)}
     \cup {file.data[i].id : i \in 1..Len(file.data)}
     \cup {UnknownId}) \ {<<>>}

\* one call of the operation op with the arguments a, r being what the
\* operation does on the current file
Call(op, a, r) ==
  /\ budget > 0
  /\ file' = r.file
  /\ nextUuid' = r.next
  /\ last' = [op |-> op, args |-> a, ok |-> r.ok, ret |-> r.ret]
  /\ before' = file
  /\ budget' = budget - 1
  /\ UNCHANGED <<write, procs>>

\* the arguments named in supplied take their values from p, the others
\* are None
ProfileArgs(p, supplied) ==
  [NoArgs EXCEPT
     !.supplied = supplied,
     !.date = IF "date" \in supplied THEN p.date ELSE <<>>,
     !.instrument = IF "instrument" \in supplied THEN p.instrument ELSE <<>>,
     !.piece = IF "piece" \in supplied THEN p.piece ELSE <<>>,
     !.duration_minutes =
        IF "duration_minutes" \in supplied THEN p.duration_minutes ELSE 0,
     !.notes = IF "notes" \in supplied THEN p.notes ELSE <<>>]

Add ==
  \E p \in Profiles, withDate \in BOOLEAN :
    /\ withDate \/ p \in UndatedProfiles
    /\ LET a == ProfileArgs(p, IF withDate THEN FieldNames
                                           ELSE FieldNames \ {"date"})
       IN Call("add", a, AddSession(file, nextUuid, a))

List ==
  \E supplied \in SUBSET {"instrument", "since"} :
    \E i \in (IF "instrument" \in supplied THEN ListInstruments ELSE {<<>>}),
       d \in (IF "since" \in supplied THEN ListSince ELSE {<<>>}) :
      LET a == [NoArgs EXCEPT !.supplied = supplied, !.instrument = i,
                              !.since = d]
      IN Call("list", a, ListSessions(file, nextUuid, a))

Get ==
  \E id \in IdArgs :
    LET a == [NoArgs EXCEPT !.id = id]
    IN Call("get", a, GetSession(file, nextUuid, a))

Update ==
  \E id \in IdArgs, supplied \in SUBSET FieldNames :
    \E d \in (IF "date" \in supplied THEN UpdateDates ELSE {<<>>}),
       i \in (IF "instrument" \in supplied THEN UpdateInstruments ELSE {<<>>}),
       p \in (IF "piece" \in supplied THEN UpdatePieces ELSE {<<>>}),
       m \in (IF "duration_minutes" \in supplied THEN UpdateDurations ELSE {0}),
       t \in (IF "notes" \in supplied THEN UpdateNotes ELSE {<<>>}) :
      LET a == [NoArgs EXCEPT !.id = id, !.supplied = supplied, !.date = d,
                              !.instrument = i, !.piece = p,
                              !.duration_minutes = m, !.notes = t]
      IN Call("update", a, UpdateSession(file, nextUuid, a))

Delete ==
  \E id \in IdArgs :
    LET a == [NoArgs EXCEPT !.id = id]
    IN Call("delete", a, DeleteSession(file, nextUuid, a))

Weekly ==
  \E k \in TopNs :
    LET a == [NoArgs EXCEPT !.top_n = k]
    IN Call("weekly", a, WeeklySummary(file, nextUuid, a))

Resolve ==
  \E x \in Prefixes :
    LET a == [NoArgs EXCEPT !.prefix = x]
    IN Call("resolve", a, ResolveIdPrefix(file, nextUuid, a))

Load ==
  LET l == LoadSessions(file, nextUuid)
  IN Call("load", NoArgs,
          [ok |-> TRUE, file |-> l.file, next |-> l.next, ret |-> l.sessions])

Total ==
  \E supplied \in SUBSET {"instrument", "since"} :
    \E i \in (IF "instrument" \in supplied THEN ListInstruments ELSE {<<>>}),
       d \in (IF "since" \in supplied THEN ListSince ELSE {<<>>}) :
      LET a == [NoArgs EXCEPT !.supplied = supplied, !.instrument = i,
                              !.since = d]
      IN Call("total", a, TotalMinutes(file, nextUuid, a))

Export == Call("export", NoArgs, ExportCsv(file, nextUuid, NoArgs))

Next ==
  \/ Add \/ List \/ Get \/ Update \/ Delete
  \/ Weekly \/ Resolve \/ Load \/ Total \/ Export

Spec == Init /\ [][Next]_vars

SpecLegacy == InitLegacy /\ [][Next]_vars

\* ------------------------------------------------------------------------
\* Saves step by step: Path.write_text opens the file for writing, which
\* empties it, writes the text and closes the file.  file.data is, while a
\* write is under way, the part of the collection written so far.
\* ------------------------------------------------------------------------

\* a mutating call, or a load, on the file f
RunOp(op, f, n, a) ==
  IF op = "add" THEN AddSession(f, n, a)
  ELSE IF op = "update" THEN UpdateSession(f, n, a)
  ELSE IF op = "delete" THEN DeleteSession(f, n, a)
  ELSE LET l == LoadSessions(f, n)
       IN [ok |-> TRUE, file |-> l.file, next |-> l.next, ret |-> l.sessions]

\* the collections the call saves, in order: the one with the generated ids
\* when the load found a record without an id, then the modified one when
\* add, update or delete gets to its save
Saves(op, f, n, r) ==
  LET ld == LoadSessions(f, IF op = "add" THEN n + 1 ELSE n)
      loads == op # "add" \/ r.ok
  IN (IF loads /\ ld.file # f THEN <<ld.sessions>> ELSE <<>>)
       \o (IF r.ok /\ op \in {"add", "update", "delete"}
           THEN <<r.file.data>> ELSE <<>>)

\* files at the start: no file, or one record without an id
CrashFiles ==
  {NoFile}
    \cup {SaveSessions(<<LegacyRecord(<<>>, p)>>) :
            p \in {x \in ValidProfiles : x.duration_minutes = 2}}

InitCrash ==
  /\ file \in CrashFiles
  /\ nextUuid = 1
  /\ last = NoCall
  /\ before = file
  /\ budget = MaxCrashOps
  /\ write = NoWrite
  /\ procs = NoProcs

\* the call runs up to its first save; a call that saves nothing is over
Begin(op, a) ==
  LET r == RunOp(op, file, nextUuid, a)
      saves == Saves(op, file, nextUuid, r)
  IN /\ budget > 0
     /\ write.pc = "idle"
     /\ nextUuid' = r.next
     /\ before' = file
     /\ budget' = budget - 1
     /\ IF saves = <<>>
        THEN /\ last' = [op |-> op, args |-> a, ok |-> r.ok, ret |-> r.ret]
             /\ UNCHANGED write
        ELSE /\ write' = [pc |-> "open", op |-> op, args |-> a, r |-> r,
                          pending |-> saves, prior |-> file]
             /\ UNCHANGED last
     /\ UNCHANGED <<file, procs>>

CrashAdd ==
  \E p \in ValidProfiles : Begin("add", ProfileArgs(p, FieldNames))

CrashUpdate ==
  \E id \in IdArgs :
    Begin("update", [NoArgs EXCEPT !.id = id,
                                   !.supplied = {"duration_minutes"},
                                   !.duration_minutes = 2])

CrashDelete == \E id \in IdArgs : Begin("delete", [NoArgs EXCEPT !.id = id])

CrashLoad == Begin("load", NoArgs)

\* path.open("w"): the file is created or emptied
OpenFile ==
  /\ write.pc = "open"
  /\ file' = [exists |-> TRUE, data |-> <<>>]
  /\ write' = [write EXCEPT !.pc = "writing"]
  /\ UNCHANGED <<nextUuid, last, before, budget, procs>>

\* the next part of the text reaches the file
WriteRecord ==
  /\ write.pc = "writing"
  /\ Len(file.data) < Len(Head(write.pending))
  /\ file' = [file EXCEPT
                !.data = SubSeq(Head(write.pending), 1, Len(file.data) + 1)]
  /\ UNCHANGED <<nextUuid, last, before, budget, write, procs>>

\* the whole text is written: the call goes on to its next save, or returns
CloseFile ==
  /\ write.pc = "writing"
  /\ file.data = Head(write.pending)
  /\ IF Len(write.pending) > 1
     THEN /\ write' = [write EXCEPT !.pc = "open",
                                    !.pending = Tail(write.pending),
                                    !.prior = file]
          /\ UNCHANGED last
     ELSE /\ write' = NoWrite
          /\ last' = [op |-> write.op, args |-> write.args,
                      ok |-> write.r.ok, ret |-> write.r.ret]
  /\ UNCHANGED <<file, nextUuid, before, budget, procs>>

\* open raises (no permission, say): nothing has been written
FailOpen ==
  /\ write.pc = "open"
  /\ write' = [write EXCEPT !.pc = "failed"]
  /\ last' = [op |-> write.op, args |-> write.args, ok |-> FALSE, ret |-> <<>>]
  /\ UNCHANGED <<file, nextUuid, before, budget, procs>>

\* the write raises or the process is interrupted (disk full, kill) after
\* the file was opened
FailWrite ==
  /\ write.pc = "writing"
  /\ write' = [write EXCEPT !.pc = "failed"]
  /\ last' = [op |-> write.op, args |-> write.args, ok |-> FALSE, ret |-> <<>>]
  /\ UNCHANGED <<file, nextUuid, before, budget, procs>>

NextCrash ==
  \/ CrashAdd \/ CrashUpdate \/ CrashDelete \/ CrashLoad
  \/ OpenFile \/ WriteRecord \/ CloseFile \/ FailOpen \/ FailWrite

SpecCrash == InitCrash /\ [][NextCrash]_vars

\* ------------------------------------------------------------------------
\* Two processes on the same file: each call loads the collection, changes
\* it in memory and saves it; no lock is taken.
\* ------------------------------------------------------------------------

InitRace ==
  /\ file = NoFile
  /\ nextUuid = 1
  /\ last = NoCall
  /\ before = NoFile
  /\ budget = MaxRaceOps
  /\ write = NoWrite
  /\ procs = NoProcs

\* the process p starts a call: it loads the file and computes the new
\* collection; a call that raises is over
RaceLoad(p, op, a) ==
  LET r == RunOp(op, file, nextUuid, a)
  IN /\ budget > 0
     /\ procs[p].pc # "loaded"
     /\ budget' = budget - 1
     /\ nextUuid' = r.next
     /\ IF r.ok
        THEN /\ procs' = [procs EXCEPT ![p] =
                            [pc |-> "loaded", op |-> op, args |-> a,
                             n |-> nextUuid, snapshot |-> file, r |-> r,
                             latest |-> FALSE, overwrites |-> NoOverwrite]]
             /\ UNCHANGED <<last, before>>
        ELSE /\ procs' = [procs EXCEPT ![p] = IdleProc]
             /\ last' = [op |-> op, args |-> a, ok |-> FALSE, ret |-> <<>>]
             /\ before' = file
     /\ UNCHANGED <<file, write>>

RaceAdd ==
  \E p \in Procs, q \in ValidProfiles :
    RaceLoad(p, "add", ProfileArgs(q, FieldNames))

RaceDelete ==
  \E p \in Procs, id \in IdArgs :
    RaceLoad(p, "delete", [NoArgs EXCEPT !.id = id])

\* what the save of p would write had p loaded the file again just before
Written_Reloaded(p) ==
  RunOp(procs[p].op, file, procs[p].n, procs[p].args).file

\* what the save of p writes: the collection p computed from what it loaded
Written(p) == procs[p].r.file

\* the process p saves and its call returns; a process that loaded before
\* this save and has not saved yet now holds a stale collection
RaceSave ==
  \E p \in Procs :
    /\ procs[p].pc = "loaded"
    /\ file' = Written(p)
    /\ last' = [op |-> procs[p].op, args |-> procs[p].args, ok |-> TRUE,
                ret |-> procs[p].r.ret]
    /\ before' = procs[p].snapshot
    /\ procs' = [q \in Procs |->
                   IF q = p
                   THEN [procs[p] EXCEPT !.pc = "done", !.latest = TRUE]
                   ELSE IF procs[q].pc = "loaded"
                   THEN [procs[q] EXCEPT
                           !.overwrites = [op |-> procs[p].op,
                                           args |-> procs[p].args,
                                           r |-> procs[p].r]]
                   ELSE [procs[q] EXCEPT !.latest = FALSE]]
    /\ UNCHANGED <<nextUuid, budget, write>>

NextRace == RaceAdd \/ RaceDelete \/ RaceSave

SpecRace == InitRace /\ [][NextRace]_vars

\* ------------------------------------------------------------------------
\* Vocabulary of the properties
\* ------------------------------------------------------------------------

\* the ids of a list of records, in order
Ids(data) == [i \in 1..Len(data) |-> data[i].id]

IdSet(data) == {data[i].id : i \in 1..Len(data)}

\* the records of a list, as a set
Records(data) == {data[i] : i \in 1..Len(data)}

\* t is s without its surrounding whitespace
IsTrimOf(t, s) ==
  \E i \in 1..(Len(s) + 1), j \in 0..Len(s) :
    /\ t = SubSeq(s, i, j)
    /\ \A k \in 1..(i - 1) : IsSpace(s[k])
    /\ \A k \in (j + 1)..Len(s) : IsSpace(s[k])
    /\ t # <<>> => (~IsSpace(t[1]) /\ ~IsSpace(t[Len(t)]))

\* s names a day of the calendar in the form YYYY-MM-DD
ValidDate(s) == Strptime(s).ok

\* the day of a valid date string, as a number that grows with the calendar
Day(s) == LET dt == Strptime(s) IN (dt.y * 12 + dt.m) * 31 + dt.d

\* what get(id) and list() answer in the current state
GetNow(id) == GetSession(file, nextUuid, [NoArgs EXCEPT !.id = id])

ListNow == ListSessions(file, nextUuid, NoArgs)

\* ------------------------------------------------------------------------
\* C1  add
\* ------------------------------------------------------------------------

\* C1: an add with a duration > 0 and a date that parses succeeds; get of
\* the returned id and list() then yield a record with the date and duration
\* of the call and its instrument, piece and notes trimmed, and the stored
\* collection is the previous one with that record appended.
C1_AddThenGetAndList ==
  (/\ last.op = "add"
   /\ "date" \in last.args.supplied
   /\ ValidDate(last.args.date)
   /\ last.args.duration_minutes > 0)
  => /\ last.ok
     /\ Len(last.ret) = 1
     /\ LET r == last.ret[1]
            a == last.args
        IN /\ r.date = a.date
           /\ r.duration_minutes = a.duration_minutes
           /\ IsTrimOf(r.instrument, a.instrument)
           /\ IsTrimOf(r.piece, a.piece)
           /\ IsTrimOf(r.notes, a.notes)
           /\ GetNow(r.id).ok /\ GetNow(r.id).ret = <<r>>
           /\ ListNow.ok /\ r \in Records(ListNow.ret)
           /\ file.exists
           /\ file.data = Append(before.data, r)

\* an add with whitespace around its instrument succeeded on a store that
\* held a record
C1_Witness ==
  /\ last.op = "add" /\ last.ok
  /\ "date" \in last.args.supplied
  /\ last.args.instrument # Strip(last.args.instrument)
  /\ Len(before.data) >= 1

\* ------------------------------------------------------------------------
\* C2  add with invalid arguments
\* ------------------------------------------------------------------------

\* C2: an add with a duration <= 0 or with a date that is not a valid
\* YYYY-MM-DD date raises, and the file is as it was before the call.
C2_AddInvalidFails ==
  (/\ last.op = "add"
   /\ \/ last.args.duration_minutes <= 0
      \/ "date" \in last.args.supplied /\ ~ValidDate(last.args.date))
  => ~last.ok /\ file = before

\* an add with a valid date and the duration 0 was refused on a file holding
\* a record without an id
C2_Witness ==
  /\ last.op = "add" /\ ~last.ok
  /\ last.args.duration_minutes = 0
  /\ ValidDate(last.args.date)
  /\ <<>> \in IdSet(before.data)

\* ------------------------------------------------------------------------
\* C3  update of an existing record
\* ------------------------------------------------------------------------

\* the last call was an update of a stored id whose supplied date and
\* duration are valid
UpdateOfExisting ==
  /\ last.op = "update"
  /\ last.args.id \in IdSet(before.data)
  /\ "date" \in last.args.supplied => ValidDate(last.args.date)
  /\ "duration_minutes" \in last.args.supplied => last.args.duration_minutes > 0

\* position of the record an update or a delete names
Target == First(Matching(before.data, last.args.id))

\* the update succeeded, returned the stored record, kept its id, its
\* unsupplied fields and every other record, and stored the supplied date and
\* duration
UpdateFrame ==
  LET a == last.args
      old == before.data[Target]
      new == file.data[Target]
      Given(name) == name \in a.supplied
  IN /\ last.ok
     /\ Len(file.data) = Len(before.data)
     /\ last.ret = <<new>>
     /\ new.id = old.id
     /\ \A j \in 1..Len(before.data) : j # Target => file.data[j] = before.data[j]
     /\ new.date = IF Given("date") THEN a.date ELSE old.date
     /\ new.duration_minutes =
          IF Given("duration_minutes") THEN a.duration_minutes
                                       ELSE old.duration_minutes
     /\ ~Given("instrument") => new.instrument = old.instrument
     /\ ~Given("piece") => new.piece = old.piece
     /\ ~Given("notes") => new.notes = old.notes

\* C3 as stated: after an update of an existing id with valid values, the
\* supplied fields hold the values supplied, the other fields, the id and
\* the other records are unchanged.
C3_UpdateStoresSuppliedValues ==
  UpdateOfExisting
  => /\ UpdateFrame
     /\ LET a == last.args
            new == file.data[Target]
        IN /\ "instrument" \in a.supplied => new.instrument = a.instrument
           /\ "piece" \in a.supplied => new.piece = a.piece
           /\ "notes" \in a.supplied => new.notes = a.notes

\* C3 amended: after an update of an existing id with valid values, a
\* supplied date or duration is stored as supplied and a supplied instrument,
\* piece or notes is stored with its surrounding whitespace trimmed; the other
\* fields, the id and the other records are unchanged.
C3_UpdateStoresTrimmedValues ==
  UpdateOfExisting
  => /\ UpdateFrame
     /\ LET a == last.args
            new == file.data[Target]
        IN /\ "instrument" \in a.supplied => IsTrimOf(new.instrument, a.instrument)
           /\ "piece" \in a.supplied => IsTrimOf(new.piece, a.piece)
           /\ "notes" \in a.supplied => IsTrimOf(new.notes, a.notes)

\* an update supplying the piece and the notes only changed the first of two
\* records
C3_Witness ==
  /\ UpdateOfExisting /\ last.ok
  /\ last.args.supplied = {"piece", "notes"}
  /\ Len(before.data) = 2
  /\ Target = 1
  /\ file.data[1].piece # before.data[1].piece
  /\ file.data[1].notes # before.data[1].notes

\* ------------------------------------------------------------------------
\* C4  update that must fail
\* ------------------------------------------------------------------------

\* C4: an update raises and leaves the file as it was when the id is absent,
\* a supplied date is not a valid date or a supplied duration is <= 0,
\* whatever the other arguments are.
C4_UpdateInvalidFails ==
  (/\ last.op = "update"
   /\ \/ last.args.id \notin IdSet(before.data)
      \/ "date" \in last.args.supplied /\ ~ValidDate(last.args.date)
      \/ /\ "duration_minutes" \in last.args.supplied
         /\ last.args.duration_minutes <= 0)
  => ~last.ok /\ file = before

\* an update of a stored record with a valid new date, a new instrument and
\* the duration 0 was refused
C4_Witness ==
  /\ last.op = "update" /\ ~last.ok
  /\ last.args.id \in IdSet(before.data)
  /\ {"date", "instrument", "duration_minutes"} \subseteq last.args.supplied
  /\ ValidDate(last.args.date)
  /\ last.args.date # before.data[Target].date
  /\ last.args.duration_minutes <= 0

\* ------------------------------------------------------------------------
\* C5  delete of an existing record
\* ------------------------------------------------------------------------

\* l without its i-th element
Without(l, i) == SubSeq(l, 1, i - 1) \o SubSeq(l, i + 1, Len(l))

\* C5: a delete of a stored id succeeds, leaves one record less, namely the
\* previous records without the one with that id, each unchanged; get of the
\* id then fails and list() has no record with the id.
C5_DeleteRemovesOne ==
  (last.op = "delete" /\ last.args.id \in IdSet(before.data))
  => /\ last.ok
     /\ Len(file.data) = Len(before.data) - 1
     /\ last.args.id \notin IdSet(file.data)
     /\ file.data = Without(before.data, Target)
     /\ ~GetNow(last.args.id).ok
     /\ ListNow.ok /\ last.args.id \notin IdSet(ListNow.ret)

\* the second of two records was deleted
C5_Witness ==
  /\ last.op = "delete" /\ last.ok
  /\ Len(before.data) = 2
  /\ Target = 2
  /\ Len(file.data) = 1

\* ------------------------------------------------------------------------
\* C6  delete of an absent id
\* ------------------------------------------------------------------------

\* C6 as stated: whatever the file holds, a delete of an id that is not in
\* it raises and the file is identical before and after the call.
C6_DeleteAbsentLeavesFile ==
  (last.op = "delete" /\ last.args.id \notin IdSet(before.data))
  => ~last.ok /\ file = before

\* C6 amended: whatever the file holds, a delete of an id that is not in it
\* raises and removes, adds and reorders no record; a record that has an id
\* is identical before and after the call, and a record without an id differs
\* only by the fresh id the load has given it (so the file is identical when
\* every record has an id).
C6_DeleteAbsentKeepsRecords ==
  (last.op = "delete" /\ last.args.id \notin IdSet(before.data))
  => /\ ~last.ok
     /\ file.exists = before.exists
     /\ Len(file.data) = Len(before.data)
     /\ \A i \in 1..Len(before.data) :
          IF before.data[i].id # <<>>
          THEN file.data[i] = before.data[i]
          ELSE /\ file.data[i] = [before.data[i] EXCEPT !.id = file.data[i].id]
               /\ file.data[i].id \notin IdSet(before.data) \cup {last.args.id}
               /\ \A j \in 1..Len(file.data) :
                    file.data[j].id = file.data[i].id => j = i

\* a delete of an unknown id was refused on a file holding a record with an
\* id and a record without, and the file is not what it was
C6_Witness ==
  /\ last.op = "delete" /\ ~last.ok
  /\ last.args.id \notin IdSet(before.data)
  /\ Len(before.data) = 2
  /\ before.data[1].id # <<>> /\ before.data[2].id = <<>>
  /\ file # before

\* ------------------------------------------------------------------------
\* C7  identifiers
\* ------------------------------------------------------------------------

\* C7: from the empty store, no two stored records share an id, and the ids
\* of the stored records change only by add appending a new one and delete
\* removing the one it names: no call changes the id of a record.
C7_IdsUniqueAndStable ==
  /\ \A i, j \in 1..Len(file.data) : file.data[i].id = file.data[j].id => i = j
  /\ <<>> \notin IdSet(file.data)
  /\ IF last.op = "add" /\ last.ok
     THEN /\ Ids(file.data) = Append(Ids(before.data), last.ret[1].id)
          /\ last.ret[1].id \notin IdSet(before.data)
     ELSE IF last.op = "delete" /\ last.ok
     THEN LET NotIt(id) == id # last.args.id
          IN Ids(file.data) = SelectSeq(Ids(before.data), NotIt)
     ELSE Ids(file.data) = Ids(before.data)

\* a record of a store of two was updated in every field
C7_Witness ==
  /\ last.op = "update" /\ last.ok
  /\ last.args.supplied = FieldNames
  /\ Len(file.data) = 2
  /\ file # before

\* ------------------------------------------------------------------------
\* C8  stored durations and dates
\* ------------------------------------------------------------------------

\* C8: from the empty store, every record of the file has a duration > 0
\* and a date that parses as a day of the calendar.
C8_StoredRecordsValid ==
  \A i \in 1..Len(file.data) :
    file.data[i].duration_minutes > 0 /\ ValidDate(file.data[i].date)

\* an update with an invalid date was refused on a store of two records
C8_Witness ==
  /\ last.op = "update" /\ ~last.ok
  /\ last.args.id \in IdSet(before.data)
  /\ "date" \in last.args.supplied /\ ~ValidDate(last.args.date)
  /\ Len(file.data) = 2

\* ------------------------------------------------------------------------
\* C9  list(since=D)
\* ------------------------------------------------------------------------

\* the last call was list(since=D), without an instrument
ListSinceOnly ==
  /\ last.op = "list"
  /\ "since" \in last.args.supplied
  /\ "instrument" \notin last.args.supplied

\* the stored records dated D or later
OnOrAfter(D) == {r \in Records(before.data) : Day(r.date) >= Day(D)}

\* the call returned exactly the records of S, each once
ReturnedExactly(S) ==
  last.ok /\ Records(last.ret) = S /\ Len(last.ret) = Cardinality(S)

\* C9 as stated: list(since=D) returns exactly the stored records dated D or
\* later when D is a valid date, and raises when D is malformed.
C9_ListSince ==
  ListSinceOnly
  => IF ValidDate(last.args.since)
     THEN ReturnedExactly(OnOrAfter(last.args.since))
     ELSE ~last.ok

\* C9 amended: list(since=D) returns exactly the stored records dated D or
\* later when D is a valid date, raises when D is malformed and not empty,
\* and returns every stored record when D is the empty string.
C9_ListSinceNonEmpty ==
  ListSinceOnly
  => IF ValidDate(last.args.since)
     THEN ReturnedExactly(OnOrAfter(last.args.since))
     ELSE IF last.args.since # <<>>
     THEN ~last.ok
     ELSE ReturnedExactly(Records(before.data))

\* list(since=D) returned one of two stored records
C9_Witness ==
  /\ ListSinceOnly /\ last.ok
  /\ ValidDate(last.args.since)
  /\ Len(before.data) = 2
  /\ Len(last.ret) = 1

\* ------------------------------------------------------------------------
\* C10  order of the list
\* ------------------------------------------------------------------------

\* C10: the list returned by list(...) is sorted descending by calendar
\* date: of two consecutive results, the first is not dated before the second.
C10_ListSortedByCalendarDate ==
  (last.op = "list" /\ last.ok)
  => \A i \in 1..(Len(last.ret) - 1) :
       Day(last.ret[i].date) >= Day(last.ret[i + 1].date)

\* ------------------------------------------------------------------------
\* C11  list(instrument=X)
\* ------------------------------------------------------------------------

\* the last call was list(instrument=X), without a since date
ListInstrumentOnly ==
  /\ last.op = "list"
  /\ "instrument" \in last.args.supplied
  /\ "since" \notin last.args.supplied

\* c is an ASCII letter
IsLetter(c) == (c >= 65 /\ c <= 90) \/ (c >= 97 /\ c <= 122)

\* a and b are the same string up to the case of their letters
EqualIgnoringCase(a, b) ==
  /\ Len(a) = Len(b)
  /\ \A i \in 1..Len(a) :
       \/ a[i] = b[i]
       \/ /\ IsLetter(a[i]) /\ IsLetter(b[i])
          /\ (a[i] - b[i] = 32 \/ b[i] - a[i] = 32)

\* the stored records whose instrument is X up to case
PlayedOn(X) ==
  {r \in Records(before.data) : EqualIgnoringCase(r.instrument, X)}

\* C11 as stated: list(instrument=X) returns exactly the stored records whose
\* instrument equals X ignoring letter case, for every X.
C11_ListInstrument ==
  ListInstrumentOnly => ReturnedExactly(PlayedOn(last.args.instrument))

\* C11 amended: list(instrument=X) returns exactly the stored records whose
\* instrument equals X ignoring letter case when X is not empty, and every
\* stored record when X is the empty string.
C11_ListInstrumentNonEmpty ==
  ListInstrumentOnly
  => IF last.args.instrument # <<>>
     THEN ReturnedExactly(PlayedOn(last.args.instrument))
     ELSE ReturnedExactly(Records(before.data))

\* list(instrument="a") returned the record played on "A" and left out the
\* other stored record
C11_Witness ==
  /\ ListInstrumentOnly /\ last.ok
  /\ Len(before.data) = 2
  /\ Len(last.ret) = 1
  /\ last.ret[1].instrument # last.args.instrument

\* ------------------------------------------------------------------------
\* C12  weekly_summary: the window
\* ------------------------------------------------------------------------

\* the day of a valid date string, counted from 1 January of the year 1
\* (a Monday)
Ordinal(s) == ToOrdinal(Strptime(s))

\* the Monday of the week of Today
ThisMonday == ToOrdinal(Today) - ((ToOrdinal(Today) - 1) % 7)

\* the stored records dated from the Monday of this week to Today
ThisWeek ==
  {r \in Records(before.data) :
     Ordinal(r.date) >= ThisMonday /\ Ordinal(r.date) <= ToOrdinal(Today)}

\* sum of the durations of a set of records
RECURSIVE TotalOf(_)
TotalOf(S) ==
  IF S = {} THEN 0
  ELSE LET r == CHOOSE x \in S : TRUE
       IN r.duration_minutes + TotalOf(S \ {r})

\* C12: total_minutes and session_count of weekly_summary are the sum of the
\* durations and the number of the stored sessions dated from the Monday of
\* this week to today; sessions before that Monday or after today are not
\* counted.
C12_WeeklyCountsThisWeek ==
  last.op = "weekly"
  => /\ last.ok
     /\ last.ret.total_minutes = TotalOf(ThisWeek)
     /\ last.ret.session_count = Cardinality(ThisWeek)

\* ------------------------------------------------------------------------
\* C13  resolve_id_prefix
\* ------------------------------------------------------------------------

\* the stored records whose id starts with p
IdStartsWith(p) ==
  {r \in Records(before.data) :
     /\ Len(r.id) >= Len(p)
     /\ \A i \in 1..Len(p) : r.id[i] = p[i]}

\* the call fails unless exactly one record is in M, whose id it returns
ResolvesWithin(M) ==
  IF Cardinality(M) = 1
  THEN /\ last.ok
       /\ \E r \in M : last.ret = r.id
  ELSE ~last.ok

\* C13 as stated: resolve_id_prefix(prefix) fails when no stored id starts
\* with the prefix, fails when several do, and otherwise returns the id of
\* the single matching record.
C13_ResolvePrefix ==
  last.op = "resolve" => ResolvesWithin(IdStartsWith(last.args.prefix))

\* C13, amended: the same, for the prefix with the white space around it
\* removed.
C13_ResolveTrimmedPrefix ==
  last.op = "resolve"
  => \E p \in {Strip(last.args.prefix)} :
       /\ IsTrimOf(p, last.args.prefix)
       /\ ResolvesWithin(IdStartsWith(p))

\* a prefix with white space around it resolves to the one of two records
\* it names
C13_Witness ==
  /\ last.op = "resolve"
  /\ last.ok
  /\ Len(before.data) = 2
  /\ last.args.prefix # Strip(last.args.prefix)
  /\ last.ret \in IdSet(before.data)

\* ------------------------------------------------------------------------
\* C14  ids of legacy records
\* ------------------------------------------------------------------------

\* the file before the call has a record without an id
HasMissingId == \E i \in 1..Len(before.data) : before.data[i].id = <<>>

\* C14: a load gives every record without an id a fresh one, distinct from
\* every other id in the file, and writes the collection back; a load of a
\* file whose records all have ids returns them and leaves the file alone;
\* records that had an id keep it and no other field changes.
C14_LoadBackfillsIds ==
  last.op = "load"
  => /\ last.ok
     /\ file.exists = before.exists
     /\ last.ret = file.data
     /\ Len(file.data) = Len(before.data)
     /\ \A i \in 1..Len(before.data) :
          /\ file.data[i].id # <<>>
          /\ [file.data[i] EXCEPT !.id = before.data[i].id] = before.data[i]
          /\ before.data[i].id # <<>> => file.data[i].id = before.data[i].id
          /\ before.data[i].id = <<>>
             => /\ file.data[i].id \notin IdSet(before.data)
                /\ \A j \in 1..Len(file.data) :
                     j # i => file.data[j].id # file.data[i].id
     /\ ~HasMissingId => file = before

\* a load of a file of two records, at least one of them without an id
C14_Witness ==
  /\ last.op = "load"
  /\ Len(before.data) = 2
  /\ HasMissingId
  /\ file # before

\* ------------------------------------------------------------------------
\* C15  export_csv and reading the CSV back
\* ------------------------------------------------------------------------

\* a CSV reader (comma delimiter, double quote as quote character, doubled
\* quotes inside quoted fields, rows ended by CR, LF or CR LF): st holds the
\* rows read, the fields of the current row, the current field, and the
\* mode: "start" of a field, "in" an unquoted field, "quoted" inside a quoted
\* field, "quote" after a quote inside a quoted field, "eol" after a CR
EndField(st) ==
  [st EXCEPT !.row = Append(st.row, st.field), !.field = <<>>,
             !.mode = "start"]

EndRow(st, mode) ==
  [rows |-> Append(st.rows, Append(st.row, st.field)), row |-> <<>>,
   field |-> <<>>, mode |-> mode]

ReadChar(st, c) ==
  IF st.mode = "eol" /\ c = 10 THEN [st EXCEPT !.mode = "start"]
  ELSE IF st.mode = "quoted"
  THEN IF c = 34 THEN [st EXCEPT !.mode = "quote"]
       ELSE [st EXCEPT !.field = Append(st.field, c)]
  ELSE IF st.mode = "quote" /\ c = 34
  THEN [st EXCEPT !.field = Append(st.field, c), !.mode = "quoted"]
  ELSE IF c = 44 THEN EndField(st)
  ELSE IF c = 13 THEN EndRow(st, "eol")
  ELSE IF c = 10 THEN EndRow(st, "start")
  ELSE IF c = 34 /\ st.mode \in {"start", "eol"}
  THEN [st EXCEPT !.mode = "quoted"]
  ELSE [st EXCEPT !.field = Append(st.field, c), !.mode = "in"]

RECURSIVE ReadFrom(_, _, _)
ReadFrom(text, i, st) ==
  IF i > Len(text)
  THEN IF st.row = <<>> /\ st.field = <<>> /\ st.mode \in {"start", "eol"}
       THEN st.rows
       ELSE Append(st.rows, Append(st.row, st.field))
  ELSE IF st.mode \in {"start", "in", "quoted", "quote", "eol"}
  THEN ReadFrom(text, i + 1, ReadChar(st, text[i]))
  ELSE <<>>

ReadCsv(text) ==
  ReadFrom(text, 1, [rows |-> <<>>, row |-> <<>>, field |-> <<>>,
                     mode |-> "start"])

\* the number written in decimal digits
RECURSIVE Decimal(_)
Decimal(s) ==
  IF s = <<>> THEN 0
  ELSE 10 * Decimal(SubSeq(s, 1, Len(s) - 1)) + (s[Len(s)] - 48)

\* the row gives the fields of the record
RowOf(row, r) ==
  /\ Len(row) = 6
  /\ row[1] = r.id
  /\ row[2] = r.date
  /\ row[3] = r.instrument
  /\ row[4] = r.piece
  /\ row[5] # <<>>
  /\ \A i \in 1..Len(row[5]) : row[5][i] \in 48..57
  /\ Decimal(row[5]) = r.duration_minutes
  /\ row[6] = r.notes

\* the header row: id,date,instrument,piece,duration_minutes,notes
HeaderRow ==
  <<<<105, 100>>, <<100, 97, 116, 101>>,
    <<105, 110, 115, 116, 114, 117, 109, 101, 110, 116>>,
    <<112, 105, 101, 99, 101>>,
    <<100, 117, 114, 97, 116, 105, 111, 110, 95, 109, 105, 110, 117, 116,
      101, 115>>,
    <<110, 111, 116, 101, 115>>>>

\* C15: the CSV that export_csv writes, read back, is the header row
\* id,date,instrument,piece,duration_minutes,notes followed by exactly one
\* row for each stored record, giving every field of its record (the
\* duration in decimal digits); no record is dropped or duplicated.
C15_ExportRoundTrip ==
  last.op = "export"
  => /\ last.ok
     /\ file = before
     /\ LET rows == ReadCsv(last.ret)
        IN /\ Len(rows) = Len(before.data) + 1
           /\ rows[1] = HeaderRow
           /\ \A i \in 1..Len(before.data) :
                Cardinality({k \in 2..Len(rows) :
                               RowOf(rows[k], before.data[i])}) = 1
           /\ \A k \in 2..Len(rows) :
                \E i \in 1..Len(before.data) : RowOf(rows[k], before.data[i])

\* an export of two records, one with a comma and a quote in its notes and
\* one with empty fields
C15_Witness ==
  /\ last.op = "export"
  /\ Len(before.data) = 2
  /\ \E i \in 1..2 : \E k \in 1..Len(before.data[i].notes) :
       before.data[i].notes[k] = 34
  /\ \E i \in 1..2 : before.data[i].piece = <<>>

\* ------------------------------------------------------------------------
\* C16  total_minutes
\* ------------------------------------------------------------------------

\* what list_sessions gives on the file before the call, for the arguments
\* of the call
ListBefore == ListSessions(before, nextUuid, last.args)

\* the durations of the sessions from position i on, added up
RECURSIVE DurationsFrom(_, _)
DurationsFrom(l, i) ==
  IF i > Len(l) THEN 0
  ELSE l[i].duration_minutes + DurationsFrom(l, i + 1)

\* C16: total_minutes(instrument, since) is the sum of duration_minutes over
\* the records that list(instrument, since) returns, 0 when there is none;
\* it fails exactly when that list fails.
C16_TotalIsSumOfList ==
  last.op = "total"
  => /\ last.ok = ListBefore.ok
     /\ last.ok => last.ret = DurationsFrom(ListBefore.ret, 1)

\* a total with both filters, over a part of the store only
C16_Witness ==
  /\ last.op = "total"
  /\ last.ok
  /\ last.args.supplied = {"instrument", "since"}
  /\ last.ret > 0
  /\ last.ret < DurationsFrom(before.data, 1)

\* ------------------------------------------------------------------------
\* C17  required text
\* ------------------------------------------------------------------------

\* nothing but white space
IsBlank(s) == \A i \in 1..Len(s) : IsSpace(s[i])

\* an add, or an update of a stored record, given an instrument or a piece
\* that is empty or white space
BlankTextGiven ==
  /\ \/ last.op = "add"
     \/ last.op = "update" /\ last.args.id \in IdSet(before.data)
  /\ \/ "instrument" \in last.args.supplied /\ IsBlank(last.args.instrument)
     \/ "piece" \in last.args.supplied /\ IsBlank(last.args.piece)

\* C17: add and update fail when the instrument or the piece given is empty
\* or white space only, and no record with an empty instrument or piece is
\* persisted.
C17_BlankTextFails ==
  BlankTextGiven
  => /\ ~last.ok
     /\ \A r \in Records(file.data) :
          (r.instrument = <<>> \/ r.piece = <<>>) => r \in Records(before.data)

\* ------------------------------------------------------------------------
\* C18  weekly_summary: the order of the totals
\* ------------------------------------------------------------------------

\* the stored records weekly_summary adds up: those dated on or after the
\* Monday of this week
Summarised == {r \in Records(before.data) : Ordinal(r.date) >= ThisMonday}

MinutesOnInstrument(x) == TotalOf({r \in Summarised : r.instrument = x})

MinutesOnPiece(x) == TotalOf({r \in Summarised : r.piece = x})

\* the pairs of l are in descending order of their minutes
DescendingMinutes(l) ==
  \A i, j \in 1..Len(l) : i < j => l[i][2] >= l[j][2]

\* the minutes of the pairs of l from position i on, added up
RECURSIVE MinutesFrom(_, _)
MinutesFrom(l, i) == IF i > Len(l) THEN 0 ELSE l[i][2] + MinutesFrom(l, i + 1)

\* C18: in the result of weekly_summary the totals by instrument are in
\* descending order of minutes, add up to total_minutes and name each
\* instrument once; top_pieces has at most top_n entries in descending order
\* of minutes, and no piece left out of it has more minutes than a piece
\* in it.
C18_WeeklyOrder ==
  last.op = "weekly" /\ last.ok
  => LET byInstrument == last.ret.minutes_by_instrument
         top == last.ret.top_pieces
     IN /\ DescendingMinutes(byInstrument)
        /\ MinutesFrom(byInstrument, 1) = last.ret.total_minutes
        /\ \A i, j \in 1..Len(byInstrument) :
             i # j => byInstrument[i][1] # byInstrument[j][1]
        /\ {byInstrument[i][1] : i \in 1..Len(byInstrument)}
             = {r.instrument : r \in Summarised}
        /\ \A i \in 1..Len(byInstrument) :
             byInstrument[i][2] = MinutesOnInstrument(byInstrument[i][1])
        /\ Len(top) <= last.args.top_n
        /\ DescendingMinutes(top)
        /\ \A i, j \in 1..Len(top) : i # j => top[i][1] # top[j][1]
        /\ \A i \in 1..Len(top) :
             /\ \E r \in Summarised : r.piece = top[i][1]
             /\ top[i][2] = MinutesOnPiece(top[i][1])
        /\ \A r \in Summarised :
             (\A i \in 1..Len(top) : top[i][1] # r.piece)
             => \A i \in 1..Len(top) : MinutesOnPiece(r.piece) <= top[i][2]

\* a summary of two instruments and two pieces with different minutes, the
\* smaller one listed first by list_sessions, with top_n = 1
C18_Witness ==
  /\ last.op = "weekly"
  /\ last.ok
  /\ last.args.top_n = 1
  /\ Len(last.ret.minutes_by_instrument) = 2
  /\ last.ret.minutes_by_instrument[1][2] > last.ret.minutes_by_instrument[2][2]
  /\ Len(last.ret.top_pieces) = 1
  /\ \E r \in Summarised : r.piece # last.ret.top_pieces[1][1]
  /\ Day(before.data[1].date) > Day(before.data[2].date)
  /\ before.data[1].duration_minutes < before.data[2].duration_minutes

\* ------------------------------------------------------------------------
\* C19  a save that fails
\* ------------------------------------------------------------------------

\* C19: a save that fails part-way leaves the file holding the complete
\* collection as last successfully written, and at no time does the file
\* hold a truncated or partially written collection.
C19_FailedSaveKeepsPriorFile ==
  /\ write.pc = "failed" => file = write.prior
  /\ write.pc = "writing"
     => file.data = write.prior.data \/ file.data = Head(write.pending)

\* ------------------------------------------------------------------------
\* C20  two writers
\* ------------------------------------------------------------------------

\* the other process
Other(p) == CHOOSE q \in Procs : q # p

\* the save of p was the last one, and it followed a save that the other
\* process made after p had loaded
SavedOver(p) ==
  /\ procs[p].pc = "done"
  /\ procs[p].latest
  /\ procs[p].overwrites.op # "none"

\* C20: no lock is taken: when a process saves a collection it loaded before
\* a save of the other process, both calls have reported success and the file
\* is the collection computed from what the process loaded, without the
\* effect of the other call: the record the other process added is not in
\* the file, the record it deleted, if the process had loaded it, is back
\* in it.
C20_StaleSaveLosesUpdate ==
  \A p \in Procs :
    SavedOver(p)
    => /\ procs[p].r.ok /\ procs[p].overwrites.r.ok
       /\ file = RunOp(procs[p].op, procs[p].snapshot, procs[p].n,
                       procs[p].args).file
       /\ procs[p].overwrites.op = "add"
          => procs[p].overwrites.r.ret[1].id \notin IdSet(file.data)
       /\ /\ procs[p].overwrites.op = "delete"
          /\ procs[p].op = "add"
          /\ procs[p].overwrites.args.id \in IdSet(procs[p].snapshot.data)
          => procs[p].overwrites.args.id \in IdSet(file.data)

\* both processes added a session and were told it was saved; the file
\* holds one of the two
C20_Witness ==
  \E p \in Procs :
    /\ SavedOver(p)
    /\ procs[p].op = "add"
    /\ procs[p].overwrites.op = "add"
    /\ procs[Other(p)].pc = "done"
    /\ Len(file.data) = 1

\* ------------------------------------------------------------------------
\* C21  the queries leave the file alone
\* ------------------------------------------------------------------------

\* the last call was a query
IsQuery ==
  last.op \in {"list", "total", "weekly", "get", "resolve", "export"}

\* every record of the file before the call has an id
AllHadIds == \A i \in 1..Len(before.data) : before.data[i].id # <<>>

\* C21: list, total_minutes, weekly_summary, get, resolve_id_prefix and
\* export_csv, called on a file whose records all have ids, leave the file
\* exactly as it was, whether they return or raise; the order in which list
\* returns the records is not written to the file.
C21_QueriesKeepFile ==
  IsQuery /\ AllHadIds => file = before

\* a list of two records that returns them in another order than the file
\* holds them
C21_Witness ==
  /\ last.op = "list"
  /\ last.ok
  /\ Len(before.data) = 2
  /\ Len(last.ret) = 2
  /\ last.ret # before.data

\* ------------------------------------------------------------------------
\* C22  the order of the file
\* ------------------------------------------------------------------------

\* the number of the uuid4 call that generated the id: ids are generated
\* when their record is created
CreatedAt(id) == CHOOSE k \in 1..nextUuid : UuidHex(k) = id

\* C22: the file keeps the records in the order of their creation: add puts
\* the new record last, update leaves every record at its position, delete
\* leaves the remaining records in the order they had.
C22_FileInCreationOrder ==
  /\ \A i, j \in 1..Len(file.data) :
       i < j => CreatedAt(file.data[i].id) < CreatedAt(file.data[j].id)
  /\ last.op = "add" /\ last.ok
     => /\ Len(file.data) = Len(before.data) + 1
        /\ SubSeq(file.data, 1, Len(before.data)) = before.data
        /\ file.data[Len(file.data)] = last.ret[1]
  /\ last.op = "update" /\ last.ok
     => /\ Ids(file.data) = Ids(before.data)
        /\ \A i \in 1..Len(file.data) :
             file.data[i].id # last.args.id => file.data[i] = before.data[i]
  /\ last.op = "delete" /\ last.ok
     => LET Kept(r) == r.id # last.args.id
        IN file.data = SelectSeq(before.data, Kept)

\* an update of the first of two records, which stays first
C22_Witness ==
  /\ last.op = "update"
  /\ last.ok
  /\ Len(file.data) = 2
  /\ file.data[1].id = last.args.id
  /\ file.data[1] # before.data[1]

====
